---- MODULE Spec2Model ----
(***************************************************************************)
(* Model of the Flask model-serving API (src/app/app.py) and of the        *)
(* bundle written by the trainer (src/app/model.py).                       *)
(*                                                                         *)
(* The process loads the bundle at import time, then serves requests on    *)
(* parallel worker threads.  Every request runs before_request, its view   *)
(* function and after_request.  The Prometheus metrics are the only        *)
(* mutable shared state.                                                   *)
(*                                                                         *)
(* The specifications share the next-state relation.  Spec starts from     *)
(* the deployment the repository produces: the bundle IrisModel.save       *)
(* writes, or no file.  LoadSpec starts from any file at MODEL_PATH and    *)
(* is where the loader's handling of foreign bundles is examined.          *)
(* FairSpec is Spec with every worker thread kept running, for progress.   *)
(*                                                                         *)
(* Numbers: features are tenths (5.1 -> 51), probabilities are hundredths  *)
(* (the forest has 100 trees), accuracy is hundredths.  Python indexes     *)
(* from 0, TLA+ sequences from 1: class_names[prediction] is               *)
(* class_names[prediction + 1] here.                                       *)
(***************************************************************************)
EXTENDS Integers, Sequences, FiniteSets, TLC

\* ------------------------------------------------------------- bounds
\* Requests the clients send in one run, over all workers.
MaxRequests == 2
\* Items in one /batch-predict body.
MaxBatch == 2

\* The request-handling threads of the server (app.run serves threaded).
Workers == {"w1", "w2"}

\* ---------------------------------------------------- program constants
\* len(features) != 4
FeatureDim == 4
\* The iris classifier separates three species.
NumClasses == 3
\* n_estimators of the forest: predict_proba averages this many trees.
NumTrees == 100

Classes == <<"setosa", "versicolor", "virginica">>

ErrorKinds == {"invalid_input", "prediction_error", "batch_error", "internal_error"}

\* A JSON element that is not a number (a string): np.array cannot make
\* a float row of it and the classifier raises ValueError.
NotANumber == -1

\* --------------------------------------------------------- JSON values
NoVal == [t |-> "absent", v |-> << >>]
\* A JSON array of numbers.
Vec(s) == [t |-> "list", v |-> s]
\* A JSON number or null where an array is expected: len() raises TypeError.
Scalar == [t |-> "scalar", v |-> << >>]
NoBatch == [t |-> "absent", items |-> << >>]
BatchOf(s) == [t |-> "list", items |-> s]
ScalarBatch == [t |-> "scalar", items |-> << >>]

\* The canary vector of ready(), and rows of the three species.
Canary == Vec(<<51, 35, 14, 2>>)
Setosa == Vec(<<51, 35, 14, 2>>)
Versicolor == Vec(<<59, 30, 42, 15>>)
Virginica == Vec(<<67, 30, 52, 23>>)

\* ------------------------------------------------ the trained classifier
\* A row the forest can score: four numbers.
IsRow(x) ==
    /\ x.t = "list"
    /\ Len(x.v) = FeatureDim
    /\ \A i \in 1..Len(x.v) : x.v[i] # NotANumber

\* predict_proba of the fitted forest: the share of the trees voting for
\* each species, decided here by petal length and width as the iris
\* forest does.  Deterministic: the weights are fixed after fit.
predict_proba(row) ==
    IF row[3] < 25 THEN <<NumTrees, 0, 0>>
    ELSE IF row[3] < 48 /\ row[4] < 17 THEN <<0, NumTrees - 3, 3>>
    ELSE IF row[3] < 50 /\ row[4] < 18 THEN <<0, NumTrees \div 2, NumTrees \div 2>>
    ELSE <<0, 2, NumTrees - 2>>

\* np.argmax: the first index holding the maximum, from 0.
ArgMax(p) ==
    (CHOOSE i \in 1..Len(p) :
        /\ \A j \in 1..Len(p) : p[j] <= p[i]
        /\ \A j \in 1..(i - 1) : p[j] < p[i]) - 1

\* The exception a failing inference call raises on a good row: the
\* classifier is a third-party object whose calls the views guard with
\* try/except (out of memory, a worker pool that cannot start).
InferenceFault == "MemoryError"

\* model.predict(features_array)[0] and model.predict_proba(...)[0] of
\* the global m on the JSON value x; fault: the classifier fails for a reason of its own
\* while this request runs.
Infer(m, x, fault) ==
    IF m = "unset" THEN [ok |-> FALSE, exc |-> "NameError",
                         prediction |-> -1, probabilities |-> << >>]
    ELSE IF m # "classifier" THEN [ok |-> FALSE, exc |-> "AttributeError",
                                   prediction |-> -1, probabilities |-> << >>]
    ELSE IF fault THEN [ok |-> FALSE, exc |-> InferenceFault,
                   prediction |-> -1, probabilities |-> << >>]
    ELSE IF ~IsRow(x) THEN [ok |-> FALSE, exc |-> "ValueError",
                            prediction |-> -1, probabilities |-> << >>]
    ELSE [ok |-> TRUE, exc |-> "",
          prediction |-> ArgMax(predict_proba(x.v)),
          probabilities |-> predict_proba(x.v)]

\* ------------------------------------------------------ the model bundle
\* accuracy_score of the held-out split, in hundredths.
TrainedAccuracy == 100

\* What IrisModel.save writes with joblib.dump.
SavedArtifact ==
    [exists |-> TRUE, model |-> "classifier", accuracy |-> "number",
     value |-> TrainedAccuracy, has_names |-> TRUE, class_names |-> Classes]

\* No file at MODEL_PATH.
MissingArtifact ==
    [exists |-> FALSE, model |-> "absent", accuracy |-> "absent",
     value |-> 0, has_names |-> FALSE, class_names |-> << >>]

\* Class-name lists a foreign bundle may carry.
NameLists ==
    {<< >>, <<"setosa", "versicolor">>, Classes,
     <<"setosa", "versicolor", "virginica", "other">>}

\* Every file joblib.load may find at MODEL_PATH.
Artifacts ==
    {MissingArtifact} \cup
    [exists : {TRUE}, model : {"classifier", "absent"},
     accuracy : {"number", "text", "absent"}, value : {TrainedAccuracy},
     has_names : {TRUE}, class_names : NameLists] \cup
    [exists : {TRUE}, model : {"object"}, accuracy : {"number"},
     value : {TrainedAccuracy}, has_names : {TRUE}, class_names : {Classes}] \cup
    [exists : {TRUE}, model : {"classifier"}, accuracy : {"number"},
     value : {TrainedAccuracy}, has_names : {FALSE}, class_names : {<< >>}]

\* The module-level try block: joblib.load, the three key lookups and
\* model_accuracy.set (float(value)) all succeed.
LoadSucceeds(a) ==
    /\ a.exists
    /\ a.model # "absent"
    /\ a.accuracy # "absent"
    /\ a.has_names
    /\ a.accuracy = "number"

AllNames == {"setosa", "versicolor", "virginica", "other"}

\* --------------------------------------------------------- responses
NoResult == [prediction |-> -1, class |-> "", probabilities |-> << >>,
             confidence |-> -1]

Response(status, kind, error) ==
    [status |-> status, kind |-> kind, error |-> error, result |-> NoResult,
     results |-> << >>, count |-> -1, accuracy |-> -1, classes |-> << >>]

NoResponse == Response(0, "none", "")

\* A mapping that leaves out the classes of probability zero.
ZipNonZero(names, probs) ==
    SelectSeq([i \in 1..(IF Len(names) < Len(probs) THEN Len(names) ELSE Len(probs)) |->
                  [name |-> names[i], prob |-> probs[i]]],
              LAMBDA e : e.prob > 0)

\* A mapping built from probabilities[1:]: every name gets the
\* probability of the next class.
ZipShifted(names, probs) ==
    [i \in 1..(IF Len(names) < Len(probs) - 1 THEN Len(names) ELSE Len(probs) - 1) |->
        [name |-> names[i], prob |-> probs[i + 1]]]

\* zip(class_names, probabilities): pairs up to the shorter of the two.
Zip(names, probs) ==
    [i \in 1..(IF Len(names) < Len(probs) THEN Len(names) ELSE Len(probs)) |->
        [name |-> names[i], prob |-> probs[i]]]

\* What a view did besides answering: the classes it counted (in order),
\* the error kind it counted ("" for none), its latency observations and
\* the rows it gave the classifier.
Outcome(resp, pred, err, hist, inferred) ==
    [resp |-> resp, pred |-> pred, err |-> err, hist |-> hist,
     inferred |-> inferred]

\* ------------------------------------------------------------- views
\* health(): a constant body.
health ==
    Outcome(Response(200, "healthy", ""), << >>, "", 0, 0)

\* ready() without its try block: the exception reaches the 500 handler.
ready_unguarded(m, fault) ==
    LET r == Infer(m, Canary, fault) IN
    IF r.ok THEN Outcome(Response(200, "ready", ""), << >>, "", 0, 1)
    ELSE Outcome(Response(500, "error", "Internal server error"),
                 << >>, "internal_error", 0, 1)

\* ready(): the canary call inside try; any exception gives 503 with
\* str(e), and counts nothing.
ready(m, fault) ==
    LET r == Infer(m, Canary, fault) IN
    IF r.ok THEN Outcome(Response(200, "ready", ""), << >>, "", 0, 1)
    ELSE Outcome(Response(503, "not_ready", r.exc), << >>, "", 0, 1)

\* info(): the bundle's metadata as loaded.
info(accuracy, names) ==
    Outcome([Response(200, "info", "") EXCEPT !.accuracy = accuracy,
                                               !.classes = names],
            << >>, "", 0, 0)

\* home() and metrics(): read-only renderings.
home ==
    Outcome(Response(200, "home", ""), << >>, "", 0, 0)

metrics ==
    Outcome(Response(200, "metrics", ""), << >>, "", 0, 0)

\* not_found(error): the 404 handler of an unrouted path.  (The 500
\* handler internal_error has no caller here: predict, batch_predict and
\* ready catch every Exception themselves and the other views raise none.)
not_found ==
    Outcome(Response(404, "error", "Endpoint not found"), << >>, "", 0, 0)

\* The latency observed by hand after the classifier call: a call that
\* raises is not observed.
PredictionErrorUnobserved(exc, hist, inferred) ==
    Outcome(Response(500, "error", exc), << >>, "prediction_error", 0, inferred)

\* The except branch without its error_counter call.
PredictionErrorUncounted(exc, hist, inferred) ==
    Outcome(Response(500, "error", exc), << >>, "", hist, inferred)

\* The except branch of predict(): count prediction_error, answer 500.
PredictionError(exc, hist, inferred) ==
    Outcome(Response(500, "error", exc), << >>, "prediction_error", hist, inferred)

\* The check written as a lower bound: longer arrays pass.
too_few_features(features) == Len(features.v) < FeatureDim

\* if len(features) != 4, of predict()
wrong_feature_count(features) == Len(features.v) # FeatureDim

\* predict() on the parsed body data, with the loaded class_names.
predict(m, data, names, fault) ==
    IF data.t = "null" THEN
        \* 'features' not in None
        PredictionError("TypeError", 0, 0)
    ELSE IF data.t = "array" \/ data.features.t = "absent" THEN
        Outcome(Response(400, "error", "Missing features field"),
                << >>, "invalid_input", 0, 0)
    ELSE IF data.features.t = "scalar" THEN
        \* len(features) of a number or of None
        PredictionError("TypeError", 0, 0)
    ELSE IF wrong_feature_count(data.features) THEN
        Outcome(Response(400, "error", "Expected 4 features"),
                << >>, "invalid_input", 0, 0)
    ELSE
        LET r == Infer(m, data.features, fault) IN
        IF ~r.ok THEN
            \* raised inside prediction_duration.time(): still observed
            PredictionError(r.exc, 1, 1)
        ELSE IF r.prediction + 1 > Len(names) THEN
            \* class_names[prediction]
            PredictionError("IndexError", 1, 1)
        ELSE
            LET class_name == names[r.prediction + 1] IN
            Outcome([Response(200, "prediction", "") EXCEPT
                        !.result = [prediction |-> r.prediction,
                                    class |-> class_name,
                                    probabilities |-> Zip(names, r.probabilities),
                                    confidence |-> r.probabilities[r.prediction + 1]]],
                    <<class_name>>, "", 1, 1)

\* One entry of the batch results.
ItemError(got) ==
    [error |-> "Invalid feature count", got |-> got, prediction |-> -1,
     class |-> "", confidence |-> -1]

ItemResult(prediction, class_name, confidence) ==
    [error |-> "", got |-> -1, prediction |-> prediction,
     class |-> class_name, confidence |-> confidence]

\* The except branch of batch_predict(): count batch_error, answer 500.
\* Classes counted before the exception stay counted.
BatchError(exc, pred, inferred) ==
    Outcome(Response(500, "error", exc), pred, "batch_error", 0, inferred)

\* The loop with break in place of continue after a bad item.
RECURSIVE BatchLoopBreaking(_, _, _, _, _, _, _, _)
BatchLoopBreaking(m, items, i, names, fault, results, pred, inferred) ==
    IF i > Len(items) THEN
        Outcome([Response(200, "batch", "") EXCEPT !.results = results,
                                                    !.count = Len(results)],
                pred, "", 0, inferred)
    ELSE IF items[i].t # "list" THEN
        BatchError("TypeError", pred, inferred)
    ELSE IF Len(items[i].v) # FeatureDim THEN
        BatchLoopBreaking(m, items, Len(items) + 1, names, fault,
                          Append(results, ItemError(Len(items[i].v))),
                          pred, inferred)
    ELSE
        LET r == Infer(m, items[i], fault) IN
        IF ~r.ok THEN BatchError(r.exc, pred, inferred + 1)
        ELSE IF r.prediction + 1 > Len(names) THEN
            BatchError("IndexError", pred, inferred + 1)
        ELSE
            LET class_name == names[r.prediction + 1] IN
            BatchLoopBreaking(m, items, i + 1, names, fault,
                              Append(results,
                                     ItemResult(r.prediction, class_name,
                                                r.probabilities[r.prediction + 1])),
                              Append(pred, class_name), inferred + 1)

\* The for loop of batch_predict() from item i on; fault: the classifier
\* fails for a reason of its own while this request runs.
RECURSIVE BatchLoop(_, _, _, _, _, _, _, _)
BatchLoop(m, items, i, names, fault, results, pred, inferred) ==
    IF i > Len(items) THEN
        Outcome([Response(200, "batch", "") EXCEPT !.results = results,
                                                    !.count = Len(results)],
                pred, "", 0, inferred)
    ELSE IF items[i].t # "list" THEN
        \* len(features) of a number or of None
        BatchError("TypeError", pred, inferred)
    ELSE IF Len(items[i].v) # FeatureDim THEN
        BatchLoop(m, items, i + 1, names, fault,
                  Append(results, ItemError(Len(items[i].v))), pred, inferred)
    ELSE
        LET r == Infer(m, items[i], fault) IN
        IF ~r.ok THEN BatchError(r.exc, pred, inferred + 1)
        ELSE IF r.prediction + 1 > Len(names) THEN
            BatchError("IndexError", pred, inferred + 1)
        ELSE
            LET class_name == names[r.prediction + 1] IN
            BatchLoop(m, items, i + 1, names, fault,
                      Append(results,
                             ItemResult(r.prediction, class_name,
                                        r.probabilities[r.prediction + 1])),
                      Append(pred, class_name), inferred + 1)

\* batch_predict() on the parsed body data.
batch_predict(m, data, names, fault) ==
    IF data.t = "null" THEN
        \* 'batch' not in None
        BatchError("TypeError", << >>, 0)
    ELSE IF data.t = "array" \/ data.batch.t = "absent" THEN
        \* answered 400 without counting an error
        Outcome(Response(400, "error", "Missing batch field"), << >>, "", 0, 0)
    ELSE IF data.batch.t = "scalar" THEN
        \* for features in batch: a number or None is not iterable
        BatchError("TypeError", << >>, 0)
    ELSE
        BatchLoop(m, data.batch.items, 1, names, fault, << >>, << >>, 0)

\* ---------------------------------------------------------- requests
NoData == [t |-> "none", features |-> NoVal, batch |-> NoBatch]
NullBody == [t |-> "null", features |-> NoVal, batch |-> NoBatch]
ArrayBody == [t |-> "array", features |-> NoVal, batch |-> NoBatch]
EmptyObject == [t |-> "object", features |-> NoVal, batch |-> NoBatch]
FeaturesBody(x) == [t |-> "object", features |-> x, batch |-> NoBatch]
BatchBody(b) == [t |-> "object", features |-> NoVal, batch |-> b]

Short == Vec(<<10, 20>>)
Long == Vec(<<10, 20, 30, 40, 50>>)
Words == Vec(<<NotANumber, NotANumber, NotANumber, NotANumber>>)

\* A row between two species: the trees split their votes evenly.
Borderline == Vec(<<60, 27, 49, 17>>)

\* Values a client puts under "features".
FeatureInputs ==
    {Setosa, Versicolor, Borderline, Virginica, Short, Long, Scalar, Words}

\* Values a client puts in the "batch" array.
BatchItems == {Virginica, Short, Scalar}

SeqsUpTo(S, n) == UNION {[1..k -> S] : k \in 0..n}

\* The paths clients ask for; "/unknown" has no route.
Routes == {"/", "/health", "/ready", "/info", "/metrics", "/predict",
           "/batch-predict", "/unknown"}

\* Bodies of POST /predict, as request.get_json() returns them.
PredictBodies ==
    {NullBody, ArrayBody, EmptyObject} \cup
    {FeaturesBody(x) : x \in FeatureInputs}

\* Bodies of POST /batch-predict.
BatchBodies ==
    {NullBody, ArrayBody, EmptyObject, BatchBody(ScalarBatch)} \cup
    {BatchBody(BatchOf(s)) : s \in SeqsUpTo(BatchItems, MaxBatch)}

NoRequest == [route |-> "", data |-> NoData]

\* ------------------------------------------------------------- state
VARIABLES
    phase,                  \* "start", "serving" or "crashed"
    artifact,               \* the file at MODEL_PATH
    model,                  \* module globals set by the load
    model_accuracy_value,
    class_names,
    model_accuracy,         \* gauge ml_model_accuracy
    prediction_counter,     \* counter ml_predictions_total, by class
    prediction_duration,    \* histogram ml_prediction_duration_seconds: count
    active_requests,        \* gauge ml_active_requests
    error_counter,          \* counter ml_errors_total, by type
    pc,                     \* each worker's place in the request cycle
    req,                    \* the request a worker holds
    resp,                   \* the response it produced
    eff,                    \* what that request did to the metrics
    readiness_failures,     \* "Readiness check failed" lines logged
    predictions_made,       \* classifier calls of the prediction routes that returned
    failures,               \* failure responses so far, by error kind
    sent                    \* requests sent so far

bundle == <<model, model_accuracy_value, class_names>>
counters == <<prediction_counter, prediction_duration, error_counter>>
vars == <<phase, artifact, model, model_accuracy_value, class_names,
          model_accuracy, prediction_counter, prediction_duration,
          active_requests, error_counter, pc, req, resp, eff,
          readiness_failures, predictions_made, failures, sent>>

\* What has happened so far, kept for the record.
history == <<readiness_failures, predictions_made, failures>>

NoEffect ==
    [inc |-> 0, dec |-> 0, pred |-> [c \in AllNames |-> 0],
     err |-> [k \in ErrorKinds |-> 0], hist |-> 0, inferred |-> 0,
     fault |-> FALSE, failures_before |-> 0, failed_before |-> 0]

InitCommon ==
    /\ phase = "start"
    /\ model = "unset"
    /\ model_accuracy_value = -1
    /\ class_names = << >>
    /\ model_accuracy = 0
    /\ prediction_counter = [c \in AllNames |-> 0]
    /\ prediction_duration = 0
    /\ active_requests = 0
    /\ error_counter = [k \in ErrorKinds |-> 0]
    /\ pc = [w \in Workers |-> "idle"]
    /\ req = [w \in Workers |-> NoRequest]
    /\ resp = [w \in Workers |-> NoResponse]
    /\ eff = [w \in Workers |-> NoEffect]
    /\ readiness_failures = 0
    /\ predictions_made = 0
    /\ failures = [k \in ErrorKinds |-> 0]
    /\ sent = 0

\* The deployment: the bundle the trainer saved, or none.
Init ==
    /\ artifact \in {SavedArtifact, MissingArtifact}
    /\ InitCommon

\* Any file at MODEL_PATH.
InitAnyArtifact ==
    /\ artifact \in Artifacts
    /\ InitCommon

\* ----------------------------------------------------------- startup
\* A load that leaves out model_accuracy.set.
LoadModelWithoutGauge ==
    /\ phase = "start"
    /\ LoadSucceeds(artifact)
    /\ model' = artifact.model
    /\ model_accuracy_value' = artifact.value
    /\ class_names' = artifact.class_names
    /\ phase' = "serving"
    /\ UNCHANGED <<artifact, model_accuracy, counters, active_requests, pc,
                   req, resp, eff, history, sent>>

\* The try block at import: the globals and the accuracy gauge are set,
\* then app.run accepts requests.
LoadModel ==
    /\ phase = "start"
    /\ LoadSucceeds(artifact)
    /\ model' = artifact.model
    /\ model_accuracy_value' = artifact.value
    /\ class_names' = artifact.class_names
    /\ model_accuracy' = artifact.value
    /\ phase' = "serving"
    /\ UNCHANGED <<artifact, counters, active_requests, pc, req, resp, eff,
                   history, sent>>

\* The except branch without its raise: the server starts all the same.
LoadFailureSwallowed ==
    /\ phase = "start"
    /\ ~LoadSucceeds(artifact)
    /\ phase' = "serving"
    /\ UNCHANGED <<artifact, bundle, model_accuracy, counters, active_requests,
                   pc, req, resp, eff, history, sent>>

\* The except branch at import: log and re-raise; the process exits.
LoadFailure ==
    /\ phase = "start"
    /\ ~LoadSucceeds(artifact)
    /\ phase' = "crashed"
    /\ UNCHANGED <<artifact, bundle, model_accuracy, counters, active_requests,
                   pc, req, resp, eff, history, sent>>

\* A request sent while no server listens gets no answer.
Refuse(w) ==
    /\ phase # "serving"
    /\ pc[w] \in {"idle", "done"}
    /\ sent < MaxRequests
    /\ resp' = [resp EXCEPT ![w] = Response(0, "refused", "")]
    /\ eff' = [eff EXCEPT ![w] = NoEffect]
    /\ pc' = [pc EXCEPT ![w] = "done"]
    /\ sent' = sent + 1
    /\ UNCHANGED <<phase, artifact, bundle, model_accuracy, counters,
                   active_requests, req, history>>

\* ----------------------------------------------------- request cycle
\* before_request written with set(1) in place of inc().
request_started_by_set(gauge) == 1

\* active_requests.inc()
request_started(gauge) == gauge + 1

\* A server that skips after_request when the view failed.
request_finished_unless_failed(gauge, response) ==
    IF response.status >= 500 THEN gauge ELSE gauge - 1

\* active_requests.dec(), whatever the response
request_finished(gauge, response) == gauge - 1

\* A worker takes a request: before_request runs.
BeforeRequest(w) ==
    /\ phase = "serving"
    /\ pc[w] \in {"idle", "done"}
    /\ sent < MaxRequests
    /\ \E route \in Routes :
        req' = [req EXCEPT ![w] = [route |-> route, data |-> NoData]]
    /\ active_requests' = request_started(active_requests)
    /\ resp' = [resp EXCEPT ![w] = NoResponse]
    /\ eff' = [eff EXCEPT ![w] =
                 [NoEffect EXCEPT !.inc = active_requests' - active_requests]]
    /\ pc' = [pc EXCEPT ![w] = "view"]
    /\ sent' = sent + 1
    /\ UNCHANGED <<phase, artifact, bundle, model_accuracy, counters,
                   history>>

\* The inc() placed after the loop: only the last class is counted.
record_last_prediction(counter, pred) ==
    IF pred = << >> THEN counter
    ELSE [counter EXCEPT ![pred[Len(pred)]] = @ + 1]

\* A view that counts every prediction a second time.
RECURSIVE record_predictions_twice(_, _)
record_predictions_twice(counter, pred) ==
    IF pred = << >> THEN counter
    ELSE record_predictions_twice([counter EXCEPT ![Head(pred)] = @ + 2],
                                  Tail(pred))

\* prediction_counter.labels(model='iris', class=c).inc() for each c of pred
RECURSIVE record_predictions(_, _)
record_predictions(counter, pred) ==
    IF pred = << >> THEN counter
    ELSE record_predictions([counter EXCEPT ![Head(pred)] = @ + 1], Tail(pred))

\* error_counter.labels(type=kind).inc()
record_error(counter, kind) ==
    IF kind = "" THEN counter ELSE [counter EXCEPT ![kind] = @ + 1]

\* The exceptions a classifier call raises.
InferenceErrors == {"NameError", "AttributeError", "ValueError", InferenceFault}

\* The classifier calls of a prediction route that returned a prediction:
\* all the calls the view made, less the one that raised.
returned_predictions(route, o) ==
    IF route \notin {"/predict", "/batch-predict"} THEN 0
    ELSE IF o.resp.status = 500 /\ o.resp.error \in InferenceErrors
         THEN o.inferred - 1
    ELSE o.inferred

\* The error kind a response stands for: a 400 is invalid input, a 500 is
\* the error of its route; "" for a response that is no such failure.
failure_kind(route, response) ==
    IF response.status = 400 THEN "invalid_input"
    ELSE IF response.status # 500 THEN ""
    ELSE IF route = "/predict" THEN "prediction_error"
    ELSE IF route = "/batch-predict" THEN "batch_error"
    ELSE "internal_error"

\* Requests answered 400, 500 or 503 so far.
failed_requests ==
    failures["invalid_input"] + failures["prediction_error"]
    + failures["batch_error"] + failures["internal_error"] + readiness_failures

\* What a view with outcome o writes: its metric calls take effect, its
\* log lines are written and its response is ready for after_request.
RunView(w, data, fault, o) ==
    /\ prediction_counter' = record_predictions(prediction_counter, o.pred)
    /\ error_counter' = record_error(error_counter, o.err)
    /\ prediction_duration' = prediction_duration + o.hist
    /\ resp' = [resp EXCEPT ![w] = o.resp]
    /\ eff' = [eff EXCEPT ![w] =
                 [@ EXCEPT
                    !.pred = [c \in AllNames |->
                                 prediction_counter'[c] - prediction_counter[c]],
                    !.err = [k \in ErrorKinds |->
                                 error_counter'[k] - error_counter[k]],
                    !.hist = prediction_duration' - prediction_duration,
                    !.inferred = o.inferred,
                    !.fault = fault /\ o.inferred > 0,
                    !.failures_before = readiness_failures,
                    !.failed_before = failed_requests]]
    /\ readiness_failures' =
         readiness_failures + (IF o.resp.kind = "not_ready" THEN 1 ELSE 0)
    /\ predictions_made' =
         predictions_made + returned_predictions(req[w].route, o)
    /\ failures' =
         [k \in ErrorKinds |->
             failures[k] + (IF k = failure_kind(req[w].route, o.resp) THEN 1 ELSE 0)]
    /\ req' = [req EXCEPT ![w].data = data]
    /\ pc' = [pc EXCEPT ![w] = "after"]

\* A readiness view that forgets the model when its canary call fails.
DispatchDroppingModel(w, data, fault, o) ==
    /\ RunView(w, data, fault, o)
    /\ model' = IF o.resp.kind = "not_ready" THEN "unset" ELSE model
    /\ UNCHANGED <<phase, artifact, model_accuracy_value, class_names,
                   model_accuracy, active_requests, sent>>

\* The view of worker w ran with outcome o.  The views read the globals
\* model, model_accuracy_value and class_names and assign none of them.
Dispatch(w, data, fault, o) ==
    /\ RunView(w, data, fault, o)
    /\ UNCHANGED <<phase, artifact, bundle, model_accuracy, active_requests,
                   sent>>

Home(w) ==
    /\ pc[w] = "view" /\ req[w].route = "/"
    /\ Dispatch(w, NoData, FALSE, home)

\* A liveness check that runs the readiness canary.
HealthByCanary(w) ==
    /\ pc[w] = "view" /\ req[w].route = "/health"
    /\ \E fault \in BOOLEAN : Dispatch(w, NoData, fault, ready(model, fault))

Health(w) ==
    /\ pc[w] = "view" /\ req[w].route = "/health"
    /\ Dispatch(w, NoData, FALSE, health)

Ready(w) ==
    /\ pc[w] = "view" /\ req[w].route = "/ready"
    /\ \E fault \in BOOLEAN : Dispatch(w, NoData, fault, ready(model, fault))

Info(w) ==
    /\ pc[w] = "view" /\ req[w].route = "/info"
    /\ Dispatch(w, NoData, FALSE, info(model_accuracy_value, class_names))

Predict(w) ==
    /\ pc[w] = "view" /\ req[w].route = "/predict"
    /\ \E data \in PredictBodies, fault \in BOOLEAN :
        Dispatch(w, data, fault, predict(model, data, class_names, fault))

BatchPredict(w) ==
    /\ pc[w] = "view" /\ req[w].route = "/batch-predict"
    /\ \E data \in BatchBodies, fault \in BOOLEAN :
            Dispatch(w, data, fault, batch_predict(model, data, class_names, fault))

Metrics(w) ==
    /\ pc[w] = "view" /\ req[w].route = "/metrics"
    /\ Dispatch(w, NoData, FALSE, metrics)

NotFound(w) ==
    /\ pc[w] = "view" /\ req[w].route = "/unknown"
    /\ Dispatch(w, NoData, FALSE, not_found)

\* What stays with the worker once the response has left: its status.
Sent(response) == Response(response.status, "sent", "")

\* after_request runs on the response of every view and error handler;
\* the response then leaves for the client.
AfterRequest(w) ==
    /\ pc[w] = "after"
    /\ active_requests' = request_finished(active_requests, resp[w])
    /\ eff' = [eff EXCEPT ![w] =
                 [NoEffect EXCEPT !.inc = eff[w].inc,
                                  !.dec = active_requests - active_requests']]
    /\ req' = [req EXCEPT ![w] = NoRequest]
    /\ resp' = [resp EXCEPT ![w] = Sent(resp[w])]
    /\ pc' = [pc EXCEPT ![w] = "done"]
    /\ UNCHANGED <<phase, artifact, bundle, model_accuracy, counters,
                   history, sent>>

Next ==
    \/ LoadModel
    \/ LoadFailure
    \/ \E w \in Workers :
        \/ Refuse(w)
        \/ BeforeRequest(w)
        \/ Home(w)
        \/ Health(w)
        \/ Ready(w)
        \/ Info(w)
        \/ Predict(w)
        \/ BatchPredict(w)
        \/ Metrics(w)
        \/ NotFound(w)
        \/ AfterRequest(w)

Spec == Init /\ [][Next]_vars

\* A worker thread that holds a request keeps running: the views and
\* after_request neither block nor wait for one another.
Serve(w) ==
    \/ Home(w) \/ Health(w) \/ Ready(w) \/ Info(w) \/ Predict(w)
    \/ BatchPredict(w) \/ Metrics(w) \/ NotFound(w) \/ AfterRequest(w)

FairSpec == Spec /\ \A w \in Workers : WF_vars(Serve(w))

LoadSpec == InitAnyArtifact /\ [][Next]_vars

\* ============================================================ claims
\* The view of worker w has run: its response is built and its metric
\* calls are made; after_request has not run yet.
Answered(w) == pc[w] = "after"

\* The request of worker w is over: after_request has run.
Completed(w) == pc[w] = "done" /\ resp[w].status # 0

Sum(f) == f["invalid_input"] + f["prediction_error"] + f["batch_error"]
          + f["internal_error"]

\* ------------------------------------------------------------------ C1
\* C1: every request, whatever its route and whether it ends in success,
\* in a 400 or in a 500, raises the in-flight gauge once in
\* before_request and lowers it once in after_request, so its net effect
\* on the gauge is zero; with no request under way the gauge is back at
\* its starting value.
C1_GaugeNetZero ==
    /\ \A w \in Workers :
        /\ pc[w] \in {"view", "after"} => eff[w].inc = 1 /\ eff[w].dec = 0
        /\ Completed(w) => eff[w].inc = 1 /\ eff[w].dec = 1
    /\ (\A w \in Workers : pc[w] \in {"idle", "done"}) => active_requests = 0

\* A request that ended in a 500 and one that ended in a 400, both over.
C1_Witness ==
    /\ Completed("w1") /\ resp["w1"].status = 500
    /\ Completed("w2") /\ resp["w2"].status = 400
    /\ eff["w1"].dec = 1 /\ eff["w2"].dec = 1

\* ------------------------------------------------------------------ C2
\* The items of the batch of worker w.
Items(w) == req[w].data.batch.items

IsBatchRequest(w) ==
    /\ req[w].route = "/batch-predict"
    /\ req[w].data.t = "object"
    /\ req[w].data.batch.t = "list"

\* An item with the wrong number of features.
WrongCount(x) == x.t = "list" /\ Len(x.v) # FeatureDim

\* The batch of worker w has exactly one item of the wrong feature count,
\* at position k, and rows everywhere else.
OneMalformedAt(w, k) ==
    /\ IsBatchRequest(w)
    /\ k \in 1..Len(Items(w))
    /\ WrongCount(Items(w)[k])
    /\ \A i \in 1..Len(Items(w)) : i # k => IsRow(Items(w)[i])

\* Entry i of the results of worker w is the prediction for item i.
ValidResultAt(w, i) ==
    LET e == resp[w].results[i] IN
    /\ e.error = ""
    /\ e.prediction = ArgMax(predict_proba(Items(w)[i].v))
    /\ e.prediction \in 0..(Len(class_names) - 1)
    /\ e.class = class_names[e.prediction + 1]

C3_BatchNeverFails ==
    \A w \in Workers :
        (Answered(w) /\ IsBatchRequest(w) /\ ~eff[w].fault) =>
            /\ resp[w].status = 200
            /\ resp[w].count = Len(Items(w))

\* ------------------------------------------------------------------ C4
\* The body of worker w carries a features array of the wrong length.
WrongLength(w) ==
    /\ req[w].route = "/predict"
    /\ req[w].data.t = "object"
    /\ WrongCount(req[w].data.features)

\* What a wrong-length /predict request has done once its view returned.
C4_Rejected(w) ==
    /\ resp[w].status = 400
    /\ eff[w].inferred = 0
    /\ eff[w].err = [k \in ErrorKinds |->
                        IF k = "invalid_input" THEN 1 ELSE 0]
    /\ eff[w].pred = [c \in AllNames |-> 0]
    /\ eff[w].hist = 0
    /\ eff[w].inc = 1

\* C4: a /predict request whose features array has a length other than 4
\* is answered 400 without any inference; it counts one invalid_input
\* error and nothing else (no prediction, no latency observation), and
\* after_request takes back its one increment of the in-flight gauge.
C4_WrongLength ==
    /\ [](\A w \in Workers : (Answered(w) /\ WrongLength(w)) => C4_Rejected(w))
    /\ [][\A w \in Workers :
            (Answered(w) /\ WrongLength(w) /\ pc'[w] = "done") =>
                /\ active_requests' = active_requests - 1
                /\ eff'[w].inc = 1 /\ eff'[w].dec = 1
                /\ counters' = counters]_vars

\* A five-feature request, rejected.
C4_Witness ==
    \E w \in Workers :
        /\ Answered(w) /\ WrongLength(w)
        /\ Len(req[w].data.features.v) = 5
        /\ resp[w].status = 400

\* ------------------------------------------------------------------ C5
\* The body of worker w lacks the field its route requires.
LacksRequiredField(w) ==
    \/ /\ req[w].route = "/predict"
       /\ req[w].data.t \in {"null", "array"} \/ req[w].data.features.t = "absent"
    \/ /\ req[w].route = "/batch-predict"
       /\ req[w].data.t \in {"null", "array"} \/ req[w].data.batch.t = "absent"

\* C5 as stated: every /predict or /batch-predict request without its
\* required field is answered 400, never 5xx, and never reaches the
\* classifier.
C5_MissingFieldIs400 ==
    \A w \in Workers :
        (Answered(w) /\ LacksRequiredField(w)) =>
            /\ resp[w].status = 400
            /\ eff[w].inferred = 0

\* ------------------------------------------------------------------ C6
\* The error kind the failure of worker w belongs to.
FailureKind(w) ==
    IF resp[w].status = 400 THEN "invalid_input"
    ELSE IF req[w].route = "/predict" THEN "prediction_error"
    ELSE IF req[w].route = "/batch-predict" THEN "batch_error"
    ELSE "internal_error"

\* C6 as stated: a request or probe answered 400, 500 or 503 has counted
\* exactly one error, under the kind of its failure, and a request
\* answered 200 has counted none.
C6_EveryFailureCounted ==
    \A w \in Workers :
        Answered(w) =>
            /\ resp[w].status \in {400, 500, 503} =>
                eff[w].err = [k \in ErrorKinds |->
                                 IF k = FailureKind(w) THEN 1 ELSE 0]
            /\ resp[w].status = 200 => Sum(eff[w].err) = 0

\* ------------------------------------------------------------------ C7
IsProbe(w) == req[w].route = "/ready"

\* C7: no request, so no readiness probe, is answered before the load has
\* succeeded (it is refused: readiness starts at not ready); a probe is
\* answered ready only by a process that has loaded its bundle; and a
\* probe after a successful load is answered 200 ready when its canary
\* call goes through.
C7_ReadyAfterLoad ==
    /\ phase # "serving" =>
          \A w \in Workers : pc[w] \in {"idle", "done"} /\ resp[w].status = 0
    /\ \A w \in Workers :
          resp[w].kind = "ready" =>
              /\ phase = "serving"
              /\ LoadSucceeds(artifact)
              /\ model = "classifier"
    /\ \A w \in Workers :
          (Answered(w) /\ IsProbe(w) /\ ~eff[w].fault) =>
              resp[w].status = 200 /\ resp[w].kind = "ready"

\* A request sent before the load was refused; a probe sent after it is
\* answered ready.
C7_Witness ==
    /\ pc["w1"] = "done" /\ resp["w1"].kind = "refused"
    /\ Answered("w2") /\ IsProbe("w2") /\ resp["w2"].kind = "ready"

\* ------------------------------------------------------------------ C8
\* C8: a probe whose canary call raises is answered 503 not_ready with the
\* exception as its reason, a probe whose canary call succeeds is answered
\* 200 ready, however many probes failed before it; and no request ends
\* the serving process.
C8_CanaryOutcome ==
    /\ [](\A w \in Workers :
            (Answered(w) /\ IsProbe(w)) =>
                IF eff[w].fault
                THEN /\ resp[w].status = 503
                     /\ resp[w].kind = "not_ready"
                     /\ resp[w].error = InferenceFault
                ELSE /\ resp[w].status = 200
                     /\ resp[w].kind = "ready")
    /\ [][phase = "serving" => phase' = "serving"]_vars

\* A probe answered ready after an earlier probe was answered not_ready.
C8_Witness ==
    \E w \in Workers :
        /\ Answered(w) /\ IsProbe(w)
        /\ resp[w].status = 200
        /\ eff[w].failures_before > 0

\* ------------------------------------------------------------------ C9
IsHealth(w) == req[w].route = "/health"

\* C9: every /health request a serving process takes is answered 200
\* healthy, whatever the other requests and probes did; its view calls no
\* inference and changes neither the bundle nor any metric nor the
\* readiness log.
C9_AlwaysHealthy ==
    /\ [](\A w \in Workers :
            (Answered(w) /\ IsHealth(w)) =>
                /\ resp[w].status = 200
                /\ resp[w].kind = "healthy"
                /\ eff[w].inferred = 0)
    /\ [][\A w \in Workers :
            (pc[w] = "view" /\ IsHealth(w) /\ pc'[w] = "after") =>
                UNCHANGED <<bundle, model_accuracy, counters,
                            readiness_failures>>]_vars

\* /health answered healthy while a readiness probe has failed.
C9_Witness ==
    \E w \in Workers :
        /\ Answered(w) /\ IsHealth(w)
        /\ resp[w].kind = "healthy"
        /\ readiness_failures > 0

\* ----------------------------------------------------------------- C10
\* The artifact is not a bundle the loader may accept: no file, no
\* classifier, no accuracy number, or class names that are missing, empty
\* or not one per class of the classifier.
Malformed(a) ==
    \/ ~a.exists
    \/ a.model # "classifier"
    \/ a.accuracy # "number"
    \/ ~a.has_names
    \/ a.class_names = << >>
    \/ Len(a.class_names) # NumClasses

\* C10 as stated: with a malformed artifact the process never serves and
\* no request is ever taken.
C10_FailFast ==
    Malformed(artifact) =>
        /\ phase # "serving"
        /\ \A w \in Workers : pc[w] \in {"idle", "done"} /\ resp[w].status = 0

\* ----------------------------------------------------------------- C11
\* No request is under way.
Quiescent == \A w \in Workers : pc[w] \in {"idle", "done"}

PredictionTotal ==
    prediction_counter["setosa"] + prediction_counter["versicolor"]
    + prediction_counter["virginica"] + prediction_counter["other"]

\* C11 as stated: whatever the interleaving of the workers, once every
\* request has completed the in-flight gauge is back at zero, the
\* prediction counters add up to the number of predictions the classifier
\* returned to the prediction routes, and each error-kind counter equals
\* the number of failure responses of that kind.
C11_NoLostUpdate ==
    Quiescent =>
        /\ active_requests = 0
        /\ PredictionTotal = predictions_made
        /\ \A k \in ErrorKinds : error_counter[k] = failures[k]

\* ----------------------------------------------------------------- C12
\* The bundle as the load left it.
LoadedBundle == <<artifact.model, artifact.value, artifact.class_names>>

\* C12: once the process serves, the classifier, the accuracy and the
\* class names are the ones the load read from the artifact, and no step
\* of any request on any route, in any interleaving, changes one of them.
C12_BundleImmutable ==
    /\ [](phase = "serving" => bundle = LoadedBundle)
    /\ [][phase = "serving" => UNCHANGED <<bundle, artifact>>]_vars

\* A failed readiness probe and a successful prediction have both run and
\* the bundle is still the loaded one.
C12_Witness ==
    /\ Answered("w1") /\ resp["w1"].kind = "not_ready"
    /\ Answered("w2") /\ resp["w2"].kind = "prediction"
    /\ bundle = LoadedBundle

\* ----------------------------------------------------------------- C13
StatusCodes == {200, 400, 404, 500, 503}

IsPrediction(w) == req[w].route \in {"/predict", "/batch-predict"}

\* The /predict request of worker w carries four numbers.
ValidPredict(w) ==
    /\ req[w].route = "/predict"
    /\ req[w].data.t = "object"
    /\ IsRow(req[w].data.features)

\* C13: every request a serving process takes is answered once, with one
\* HTTP response that after_request passes on unchanged, and the worker
\* always gets there; a prediction request whose classifier call raises is
\* answered 500 and counts one error of its route; a valid /predict request
\* whose own classifier call goes through is answered 200 with its
\* prediction, whatever failed before it; and no request ends the serving
\* process.
C13_Isolated ==
    /\ [](\A w \in Workers :
            Answered(w) =>
                /\ resp[w].status \in StatusCodes
                /\ (IsPrediction(w) /\ eff[w].fault) =>
                       /\ resp[w].status = 500
                       /\ eff[w].err = [k \in ErrorKinds |->
                                           IF k = FailureKind(w) THEN 1 ELSE 0]
                /\ (ValidPredict(w) /\ ~eff[w].fault) =>
                       /\ resp[w].status = 200
                       /\ resp[w].kind = "prediction")
    /\ [][\A w \in Workers :
            /\ (pc[w] = "view" /\ pc'[w] # "view") => pc'[w] = "after"
            /\ (pc[w] = "after" /\ pc'[w] # "after") =>
                   /\ pc'[w] = "done"
                   /\ resp'[w].status = resp[w].status
            /\ phase = "serving" => phase' = "serving"]_vars
    /\ \A w \in Workers : (pc[w] = "view") ~> (pc[w] = "done")

\* A valid /predict request answered 200 after an earlier request's
\* classifier call had raised and been answered 500.
C13_Witness ==
    \E w \in Workers :
        /\ Answered(w) /\ ValidPredict(w)
        /\ resp[w].status = 200
        /\ eff[w].failed_before > 0
        /\ error_counter["prediction_error"] + error_counter["batch_error"] > 0

\* ----------------------------------------------------------------- C14
\* Worker w holds a success response of /predict.
PredictSucceeded(w) ==
    /\ Answered(w)
    /\ req[w].route = "/predict"
    /\ resp[w].status = 200

\* The keys of a probabilities mapping, in its order.
Keys(mapping) == [i \in 1..Len(mapping) |-> mapping[i].name]

\* C14: in every success response of /predict the keys of probabilities
\* are the loaded class_names, all of them and in their order; the
\* prediction is an index into class_names, and class is the name at that
\* index.
C14_KeysAreClassNames ==
    \A w \in Workers :
        PredictSucceeded(w) =>
            LET r == resp[w].result IN
            /\ Keys(r.probabilities) = class_names
            /\ r.prediction \in 0..(Len(class_names) - 1)
            /\ r.class = class_names[r.prediction + 1]

\* A prediction of the last class: index 2, "virginica", three keys.
C14_Witness ==
    \E w \in Workers :
        /\ PredictSucceeded(w)
        /\ resp[w].result.prediction = 2
        /\ resp[w].result.class = "virginica"
        /\ Len(resp[w].result.probabilities) = 3

\* ----------------------------------------------------------------- C15
\* The sum of the values of a probabilities mapping.
RECURSIVE SumValues(_)
SumValues(mapping) ==
    IF mapping = << >> THEN 0
    ELSE Head(mapping).prob + SumValues(Tail(mapping))

HasKey(mapping, name) == \E i \in 1..Len(mapping) : mapping[i].name = name

\* mapping[name]
ValueAt(mapping, name) ==
    mapping[CHOOSE i \in 1..Len(mapping) : mapping[i].name = name].prob

\* C15: a /predict request with four numbers, its classifier call going
\* through, is answered with probabilities that add up to one (all of the
\* NumTrees votes, none negative), and its confidence is the value the
\* mapping holds under the returned class name.
C15_ProbabilitiesSumToOne ==
    \A w \in Workers :
        (Answered(w) /\ ValidPredict(w) /\ ~eff[w].fault) =>
            LET r == resp[w].result IN
            /\ resp[w].status = 200
            /\ SumValues(r.probabilities) = NumTrees
            /\ \A i \in 1..Len(r.probabilities) : r.probabilities[i].prob >= 0
            /\ HasKey(r.probabilities, r.class)
            /\ r.confidence = ValueAt(r.probabilities, r.class)

\* A prediction whose votes are split between two classes.
C15_Witness ==
    \E w \in Workers :
        /\ Answered(w) /\ ValidPredict(w) /\ ~eff[w].fault
        /\ resp[w].result.class = "virginica"
        /\ resp[w].result.confidence = NumTrees - 2
        /\ ValueAt(resp[w].result.probabilities, "versicolor") = 2

\* ----------------------------------------------------------------- C16
IsInfo(w) == req[w].route = "/info"

\* C16: the accuracy gauge keeps its initial value until the load, holds
\* the artifact's accuracy from the load on, and changes in no other step
\* than the load, so no request changes it; and every /info response
\* reports the accuracy and the class names of the loaded artifact.
C16_AccuracySetOnce ==
    /\ [](phase # "serving" => model_accuracy = 0)
    /\ [](phase = "serving" => model_accuracy = artifact.value)
    /\ [][model_accuracy' # model_accuracy =>
            /\ phase = "start" /\ phase' = "serving"
            /\ model_accuracy' = artifact.value]_vars
    /\ [][phase = "serving" => phase' = "serving" /\ artifact' = artifact]_vars
    /\ [](\A w \in Workers :
            (Answered(w) /\ IsInfo(w)) =>
                /\ resp[w].status = 200
                /\ resp[w].accuracy = artifact.value
                /\ resp[w].classes = artifact.class_names)

\* /info answered with the trained accuracy after a prediction request
\* has been served, the gauge still holding that accuracy.
C16_Witness ==
    /\ Completed("w1") /\ prediction_counter["setosa"] > 0
    /\ Answered("w2") /\ IsInfo("w2")
    /\ resp["w2"].accuracy = TrainedAccuracy
    /\ resp["w2"].classes = Classes
    /\ model_accuracy = TrainedAccuracy

\* ----------------------------------------------------------------- C17
\* C17: a /predict request answered with success has raised the
\* prediction counter of the class named in its response by one and no
\* other prediction counter; and no step ever lowers a prediction counter
\* or an error counter.
C17_CountedOnce ==
    /\ [](\A w \in Workers :
            PredictSucceeded(w) =>
                eff[w].pred = [c \in AllNames |->
                                  IF c = resp[w].result.class THEN 1 ELSE 0])
    /\ [][/\ \A c \in AllNames : prediction_counter'[c] >= prediction_counter[c]
          /\ \A k \in ErrorKinds : error_counter'[k] >= error_counter[k]]_vars

\* Two successful predictions of one class: its counter stands at two.
C17_Witness ==
    \E w \in Workers :
        /\ PredictSucceeded(w)
        /\ resp[w].result.class = "versicolor"
        /\ eff[w].pred["versicolor"] = 1
        /\ prediction_counter["versicolor"] = 2

\* ----------------------------------------------------------------- C18
\* The workers whose request has run before_request and not yet
\* after_request.
InFlight == {w \in Workers : pc[w] \in {"view", "after"}}

\* C18: in every state the in-flight gauge is the number of requests
\* between their before_request and their after_request; it is never
\* negative and it is zero when no request is in progress.
C18_GaugeIsInFlight ==
    /\ active_requests = Cardinality(InFlight)
    /\ active_requests >= 0
    /\ Quiescent => active_requests = 0

\* Two requests in flight at once, one in its view and one answered.
C18_Witness ==
    /\ pc["w1"] = "view"
    /\ pc["w2"] = "after"
    /\ active_requests = 2

\* ----------------------------------------------------------------- C19
\* Worker w holds a success response of /batch-predict.
BatchSucceeded(w) ==
    /\ Answered(w)
    /\ req[w].route = "/batch-predict"
    /\ resp[w].status = 200

\* The entries of results that are predictions of class c.
EntriesOf(results, c) ==
    {i \in 1..Len(results) : results[i].error = "" /\ results[i].class = c}

ErrorEntries(results) == {i \in 1..Len(results) : results[i].error # ""}

\* C19: a /batch-predict request answered 200 has raised, for every class,
\* the prediction counter of that class by the number of result entries
\* predicting it, so the total by the number of entries that are not
\* errors; it has counted no error and observed no latency, item errors
\* or not.
C19_BatchCounts ==
    \A w \in Workers :
        BatchSucceeded(w) =>
            /\ eff[w].pred = [c \in AllNames |->
                                 Cardinality(EntriesOf(resp[w].results, c))]
            /\ eff[w].err = [k \in ErrorKinds |-> 0]
            /\ eff[w].hist = 0

\* A batch answered with two predictions, and one answered with a
\* prediction next to an item error.
C19_Witness ==
    /\ BatchSucceeded("w1")
    /\ Cardinality(EntriesOf(resp["w1"].results, "virginica")) = 2
    /\ eff["w1"].pred["virginica"] = 2
    /\ BatchSucceeded("w2")
    /\ Cardinality(ErrorEntries(resp["w2"].results)) = 1
    /\ eff["w2"].pred["virginica"] = 1

\* ----------------------------------------------------------------- C20
\* The /predict request of worker w passes both checks of the view and
\* enters the block timed by prediction_duration.
EntersInference(w) ==
    /\ req[w].route = "/predict"
    /\ req[w].data.t = "object"
    /\ req[w].data.features.t = "list"
    /\ Len(req[w].data.features.v) = FeatureDim

\* C20: a /predict request that enters the inference block has made one
\* observation in the latency histogram when its view returns, whether
\* the classifier call returned or raised; every other request (a
\* /predict request stopped before the block, /batch-predict, /ready and
\* the rest) has made none; and the histogram count changes in no other
\* way.
C20_OneObservation ==
    /\ [](\A w \in Workers :
            Answered(w) =>
                eff[w].hist = IF EntersInference(w) THEN 1 ELSE 0)
    /\ [][\/ prediction_duration' = prediction_duration
          \/ /\ prediction_duration' = prediction_duration + 1
             /\ \E w \in Workers :
                    /\ pc[w] = "view" /\ pc'[w] = "after"
                    /\ EntersInference(w)']_vars

\* A /predict request whose classifier call raised: answered 500, observed
\* once; next to a readiness probe that observed nothing.
C20_Witness ==
    /\ Answered("w1") /\ EntersInference("w1")
    /\ resp["w1"].status = 500 /\ eff["w1"].fault
    /\ eff["w1"].hist = 1
    /\ Answered("w2") /\ IsProbe("w2") /\ eff["w2"].inferred = 1
    /\ eff["w2"].hist = 0
    /\ prediction_duration = 1
====
